---- MODULE Spec2Model ----
(***************************************************************************)
(* Model of demo.py, the Streamlit "YouTube Workout Plan Extractor".       *)
(* One run of the button handler is a chain of steps (resolve the video    *)
(* id, fetch the transcript, ask the completion endpoint, present the      *)
(* plan); the external collaborators (pytube, youtube_transcript_api, the  *)
(* completion endpoint) are nondeterministic inputs of those steps.        *)
(***************************************************************************)
EXTENDS Integers, Sequences, FiniteSets, TLC

\* ------------------------------------------------------------- bounds ---
MaxTracks == 2      \* tracks a provider enumerates for one video
MaxRecords == 2     \* elements of a JSON array the endpoint answers with

\* ------------------------------------------------------ Python values ---
\* Every Python value is a pair <<type tag, value>>, so that None, strings,
\* numbers, lists and dicts can be told apart and compared.  A str is a
\* sequence of one-character strings, a list a sequence of values, a dict a
\* sequence of <<key, value>> pairs in insertion order.
None == <<"null", <<>>>>
Bool(b) == <<"bool", b>>
Num(n) == <<"num", n>>
Str(s) == <<"str", s>>
List(s) == <<"arr", s>>
Dict(s) == <<"obj", s>>

\* Variant: the tests written `if x is not None:`.
Truthy_is_not_none(x) == x # None

\* Python truth value testing, as used by `if x:` and `if not x:`.
Truthy(x) ==
  CASE x[1] = "null" -> FALSE
    [] x[1] = "bool" -> x[2]
    [] x[1] = "num" -> x[2] # 0
    [] OTHER -> Len(x[2]) > 0

\* Seq(S) restricted to sequences of at most n elements.
SeqUpTo(S, n) == UNION {[1..k -> S] : k \in 0..n}

\* The text of a str: its characters concatenated.
RECURSIVE Text(_)
Text(s) == IF s = <<>> THEN "" ELSE Head(s) \o Text(Tail(s))

\* sep.join(parts) for a sequence of texts.
RECURSIVE Join(_, _)
Join(sep, parts) ==
  IF parts = <<>> THEN ""
  ELSE IF Len(parts) = 1 THEN parts[1]
  ELSE parts[1] \o sep \o Join(sep, Tail(parts))

\* --------------------------------------------------------------- json ---
\* A JSON text is a sequence of tokens: the six punctuators and the scalar
\* literals (a literal token is the scalar value it denotes); any other
\* lexeme, such as a markdown fence, is a token no value starts with.  Whitespace,
\* and so the indentation json.dumps adds, is not a token.
Punct(c) == <<"p", c>>
IsScalar(x) == x[1] \in {"null", "bool", "num", "str"}

RECURSIVE Dumps(_)
RECURSIVE DumpItems(_)
RECURSIVE DumpMembers(_)
\* json.dumps(obj, indent=2), up to whitespace.
Dumps(x) ==
  CASE x[1] = "arr" -> <<Punct("[")>> \o DumpItems(x[2]) \o <<Punct("]")>>
    [] x[1] = "obj" -> <<Punct("{")>> \o DumpMembers(x[2]) \o <<Punct("}")>>
    [] OTHER -> <<x>>
DumpItems(s) ==
  IF s = <<>> THEN <<>>
  ELSE IF Len(s) = 1 THEN Dumps(s[1])
  ELSE Dumps(s[1]) \o <<Punct(",")>> \o DumpItems(Tail(s))
DumpMembers(s) ==
  IF s = <<>> THEN <<>>
  ELSE LET m == <<Str(s[1][1]), Punct(":")>> \o Dumps(s[1][2])
       IN IF Len(s) = 1 THEN m ELSE m \o <<Punct(",")>> \o DumpMembers(Tail(s))

\* dict[k] = val: a new key is appended, an existing key keeps its place.
SetItem(d, k, val) ==
  IF \E i \in 1..Len(d) : d[i][1] = k
  THEN [i \in 1..Len(d) |-> IF d[i][1] = k THEN <<k, val>> ELSE d[i]]
  ELSE Append(d, <<k, val>>)

Fail == [ok |-> FALSE, val |-> None, next |-> 0]
IsTok(toks, i, c) == i <= Len(toks) /\ toks[i] = Punct(c)

RECURSIVE ParseValue(_, _)
RECURSIVE ParseItems(_, _, _)
RECURSIVE ParseMembers(_, _, _)
\* The JSON decoder: the value starting at token i and the index after it.
ParseValue(toks, i) ==
  IF i > Len(toks) THEN Fail
  ELSE IF IsScalar(toks[i]) THEN [ok |-> TRUE, val |-> toks[i], next |-> i + 1]
  ELSE IF toks[i] = Punct("[") THEN
    IF IsTok(toks, i + 1, "]")
    THEN [ok |-> TRUE, val |-> List(<<>>), next |-> i + 2]
    ELSE ParseItems(toks, i + 1, <<>>)
  ELSE IF toks[i] = Punct("{") THEN
    IF IsTok(toks, i + 1, "}")
    THEN [ok |-> TRUE, val |-> Dict(<<>>), next |-> i + 2]
    ELSE ParseMembers(toks, i + 1, <<>>)
  ELSE Fail
ParseItems(toks, i, acc) ==
  LET e == ParseValue(toks, i) IN
  IF ~e.ok THEN Fail
  ELSE IF IsTok(toks, e.next, ",") THEN ParseItems(toks, e.next + 1, Append(acc, e.val))
  ELSE IF IsTok(toks, e.next, "]")
  THEN [ok |-> TRUE, val |-> List(Append(acc, e.val)), next |-> e.next + 1]
  ELSE Fail
ParseMembers(toks, i, acc) ==
  IF ~(i + 1 <= Len(toks) /\ toks[i][1] = "str" /\ toks[i + 1] = Punct(":")) THEN Fail
  ELSE LET e == ParseValue(toks, i + 2) IN
    IF ~e.ok THEN Fail
    ELSE LET d == SetItem(acc, toks[i][2], e.val) IN
      IF IsTok(toks, e.next, ",") THEN ParseMembers(toks, e.next + 1, d)
      ELSE IF IsTok(toks, e.next, "}")
      THEN [ok |-> TRUE, val |-> Dict(d), next |-> e.next + 1]
      ELSE Fail

\* Variant: a decoder that yields None for a text it cannot decode.
json_loads_lenient(s) ==
  IF s[1] # "text" THEN [raised |-> "TypeError", val |-> None]
  ELSE LET r == ParseValue(s[2], 1) IN
    IF r.ok /\ r.next = Len(s[2]) + 1
    THEN [raised |-> "", val |-> r.val]
    ELSE [raised |-> "", val |-> None]

\* json.loads(s): the decoded value, or the exception it raises.
json_loads(s) ==
  IF s[1] # "text" THEN [raised |-> "TypeError", val |-> None]
  ELSE LET r == ParseValue(s[2], 1) IN
    IF r.ok /\ r.next = Len(s[2]) + 1
    THEN [raised |-> "", val |-> r.val]
    ELSE [raised |-> "JSONDecodeError", val |-> None]

\* ------------------------------------------------------------- pandas ---
NaN == <<"nan", <<>>>>

\* d.get(k, NaN) for a dict given as its sequence of pairs.
Get(d, k) ==
  IF \E i \in 1..Len(d) : d[i][1] = k
  THEN d[CHOOSE i \in 1..Len(d) : d[i][1] = k][2]
  ELSE NaN

\* Column labels of a list of dicts: the keys in order of first appearance.
RECURSIVE Columns(_, _)
RECURSIVE AddKeys(_, _)
AddKeys(cols, d) ==
  IF d = <<>> THEN cols
  ELSE AddKeys(IF \E i \in 1..Len(cols) : cols[i] = d[1][1] THEN cols
               ELSE Append(cols, d[1][1]), Tail(d))
Columns(cols, recs) ==
  IF recs = <<>> THEN cols ELSE Columns(AddKeys(cols, recs[1][2]), Tail(recs))

\* pd.DataFrame(data): a frame of labelled columns and rows of cells for a
\* list of dicts, one column labelled 0 for a list of scalars, or the
\* ValueError pandas raises for a scalar and for a dict of scalars.
DataFrame(data) ==
  IF data[1] = "arr" /\ \A i \in 1..Len(data[2]) : data[2][i][1] = "obj" THEN
    LET cols == Columns(<<>>, data[2]) IN
    [raised |-> "", columns |-> cols,
     rows |-> [i \in 1..Len(data[2]) |->
                 [c \in 1..Len(cols) |-> Get(data[2][i][2], cols[c])]]]
  ELSE IF data[1] = "arr" /\ \A i \in 1..Len(data[2]) : IsScalar(data[2][i]) THEN
    [raised |-> "", columns |-> << <<"0">> >>,
     rows |-> [i \in 1..Len(data[2]) |-> <<data[2][i]>>]]
  ELSE [raised |-> "ValueError", columns |-> <<>>, rows |-> <<>>]

\* csv.QUOTE_MINIMAL: a field holding the delimiter, a quote or a line break
\* is wrapped in quotes, its quotes doubled.
Special == {",", "\"", "\n", "\r"}
RECURSIVE DoubleQuotes(_)
DoubleQuotes(s) ==
  IF s = <<>> THEN ""
  ELSE (IF Head(s) = "\"" THEN "\"\"" ELSE Head(s)) \o DoubleQuotes(Tail(s))
CsvField(s) ==
  IF \E i \in 1..Len(s) : s[i] \in Special
  THEN "\"" \o DoubleQuotes(s) \o "\""
  ELSE Text(s)

\* A column with a missing cell whose other cells are integers is float64.
IsFloatColumn(df, c) ==
  /\ \E i \in 1..Len(df.rows) : df.rows[i][c] = NaN
  /\ \A i \in 1..Len(df.rows) : df.rows[i][c][1] \in {"nan", "num"}

\* The text written for the cell of row i, column c.
CsvCell(df, i, c) ==
  LET x == df.rows[i][c] IN
  CASE x[1] = "nan" -> ""
    [] x[1] = "num" -> IF IsFloatColumn(df, c) THEN ToString(x[2]) \o ".0"
                      ELSE ToString(x[2])
    [] x[1] = "bool" -> IF x[2] THEN "True" ELSE "False"
    [] x[1] = "str" -> CsvField(x[2])
    [] OTHER -> ""

\* workout_df.to_csv(index=...): the lines of the file, the header first,
\* each without its terminating line break.
to_csv(df, index) ==
  LET lead(i) == IF index THEN <<IF i = 0 THEN "" ELSE ToString(i - 1)>>
                 ELSE <<>>
      header == lead(0) \o [c \in 1..Len(df.columns) |-> CsvField(df.columns[c])]
      line(i) == lead(i) \o [c \in 1..Len(df.columns) |-> CsvCell(df, i, c)]
  IN <<Join(",", header)>> \o [i \in 1..Len(df.rows) |-> Join(",", line(i))]

\* Variant: to_csv() with its default index=True.
workout_csv_with_index(df) == to_csv(df, TRUE)

\* csv = workout_df.to_csv(index=False)
workout_csv(df) == to_csv(df, FALSE)

\* ------------------------------------------------------------- inputs ---
\* What the user types into the text input.
Urls == {"", "https://youtu.be/dQw4w9WgXcQ", "workout video"}

\* What os.getenv('PERPLEXITY_API_KEY') yields: unset, empty or a key.
ApiKeys == {None, Str(<<>>), Str(<<"p", "p", "l", "x">>)}

\* A transcript track of the provider: its display name, its language code
\* and the segments fetch() yields.
Track(name, code, texts) ==
  [language |-> name, language_code |-> code,
   segments |-> [i \in 1..Len(texts) |-> [text |-> texts[i]]]]
Tracks ==
  { Track("English", "en", <<"Do three sets of push-ups", "then four sets of squats">>),
    Track("en", "en", <<"three sets of dips">>),
    Track("Deutsch", "de", <<"Mach drei Saetze">>),
    Track("French", "fr", <<>>) }

\* list_transcripts(video_id): it raises (captions disabled, network error)
\* or yields the tracks in the provider's enumeration order.
Listings ==
  {[raised |-> TRUE, tracks |-> <<>>]} \cup
  {[raised |-> FALSE, tracks |-> s] : s \in SeqUpTo(Tracks, MaxTracks)}

K_exercise == <<"e", "x", "e", "r", "c", "i", "s", "e">>
K_sets == <<"s", "e", "t", "s">>
K_reps == <<"r", "e", "p", "s">>
Names == {<<"S", "q", "u", "a", "t", "s">>, <<"D", "i", "p", ",", " ", "w", "i", "d", "e">>}

\* The dicts the endpoint's arrays are made of: exercise records with their
\* keys in the prompt's order or another, and a record lacking its reps.
Records ==
  UNION {{ Dict(<<<<K_exercise, Str(n)>>, <<K_sets, Num(3)>>, <<K_reps, Num(12)>>>>),
           Dict(<<<<K_reps, Num(15)>>, <<K_sets, Num(4)>>, <<K_exercise, Str(n)>>>>) }
         : n \in Names}
  \cup {Dict(<<<<K_exercise, Str(<<"D", "i", "p", "s">>)>>, <<K_sets, Num(5)>>>>)}

\* The JSON documents the endpoint answers with.
JsonValues ==
  {None, Bool(FALSE), Bool(TRUE), Num(0), Num(5), Str(<<>>), Str(<<"n", "o">>),
   Dict(<<>>), List(<<Num(5)>>)}
  \cup {r \in Records : Len(r[2]) = 3 /\ r[2][1][1] = K_exercise}
  \cup {List(s) : s \in SeqUpTo(Records, MaxRecords)}

\* message.content: absent, or a text.
TextOf(toks) == <<"text", toks>>
AnArray == List(<<Dict(<<<<K_exercise, Str(<<"S", "q", "u", "a", "t", "s">>)>>,
                         <<K_sets, Num(3)>>, <<K_reps, Num(12)>>>>)>>)
\* Texts that are not JSON: nothing, a markdown-fenced array, a truncated
\* array, an array followed by more.
BadTexts ==
  { TextOf(<<>>),
    TextOf(<<Punct("fence")>> \o Dumps(AnArray) \o <<Punct("fence")>>),
    TextOf(SubSeq(Dumps(AnArray), 1, Len(Dumps(AnArray)) - 1)),
    TextOf(Dumps(AnArray) \o <<Punct(",")>>) }
Contents == {None} \cup {TextOf(Dumps(x)) : x \in JsonValues} \cup BadTexts

\* client.chat.completions.create(...): it raises, or yields a response with
\* its one choice.
Completions ==
  {[raised |-> TRUE, choices |-> <<>>]}
  \cup {[raised |-> FALSE, choices |-> <<[content |-> c]>>] : c \in Contents}

\* ---------------------------------------------------------- functions ---
Error(text) == [kind |-> "error", text |-> text]
Warning(text) == [kind |-> "warning", text |-> text]

\* pytube's extract.video_id(url): the 11-character id of a URL that has
\* one, RegexMatchError otherwise.
video_id_of(url) ==
  IF url \in {"https://youtu.be/dQw4w9WgXcQ", "https://www.youtube.com/watch?v=dQw4w9WgXcQ"}
  THEN [raised |-> FALSE, val |-> Str(<<"d", "Q", "w", "4", "w", "9", "W", "g", "X", "c", "Q">>)]
  ELSE [raised |-> TRUE, val |-> None]

\* extract_video_id(url): the id, or None after an error message.
extract_video_id(url) ==
  LET r == video_id_of(url) IN
  IF r.raised THEN [val |-> None, msgs |-> <<Error("Error extracting video ID")>>]
  ELSE [val |-> r.val, msgs |-> <<>>]

\* transcript_list.find_transcript(["en"]): the index of the first track
\* with that language code, 0 for NoTranscriptFound.
find_transcript(tracks, code) ==
  IF \E i \in 1..Len(tracks) : tracks[i].language_code = code
  THEN CHOOSE i \in 1..Len(tracks) :
         /\ tracks[i].language_code = code
         /\ \A j \in 1..(i - 1) : tracks[j].language_code # code
  ELSE 0

\* Variant: the except branch returns an empty list, and an empty
\* enumeration is answered with one without an error.
get_transcript_empty_list(listing, fetch_ok) ==
  LET failed == [val |-> List(<<>>), msgs |-> <<Error("Error getting transcript")>>, track |-> 0]
      fetch(i) == IF fetch_ok
                  THEN [val |-> List(listing.tracks[i].segments), msgs |-> <<>>, track |-> i]
                  ELSE failed
      available_transcripts ==
        {listing.tracks[i].language : i \in 1..Len(listing.tracks)}
  IN IF listing.raised THEN failed
     ELSE IF "en" \in available_transcripts THEN
       IF find_transcript(listing.tracks, "en") = 0 THEN failed
       ELSE fetch(find_transcript(listing.tracks, "en"))
     ELSE IF listing.tracks = <<>> THEN [val |-> List(<<>>), msgs |-> <<>>, track |-> 0]
     ELSE fetch(1)

\* get_transcript(video_id), for what the provider lists and whether the
\* fetch of the chosen track goes through: the transcript or None, the
\* messages shown and the index of the track fetched (0: none).
get_transcript(listing, fetch_ok) ==
  LET failed == [val |-> None, msgs |-> <<Error("Error getting transcript")>>, track |-> 0]
      fetch(i) == IF fetch_ok
                  THEN [val |-> List(listing.tracks[i].segments), msgs |-> <<>>, track |-> i]
                  ELSE failed
      available_transcripts ==
        {listing.tracks[i].language : i \in 1..Len(listing.tracks)}
  IN IF listing.raised THEN failed
     ELSE IF "en" \in available_transcripts THEN
       IF find_transcript(listing.tracks, "en") = 0 THEN failed
       ELSE fetch(find_transcript(listing.tracks, "en"))
     ELSE IF listing.tracks = <<>> THEN failed    \* IndexError, caught
     ELSE fetch(1)

\* Variant: the key is not checked before the client is built and called.
extract_workout_perplexity_no_key_check(transcript, key, completion) ==
  LET out(exc, val, msgs, clients, reqs) ==
        [raised |-> exc, val |-> val, msgs |-> msgs, clients |-> clients, requests |-> reqs]
      transcript_text ==
        Join(" ", [i \in 1..Len(transcript[2]) |-> transcript[2][i].text])
  IN IF ~Truthy(transcript)
     THEN out("", None, <<Warning("No transcript available for this video.")>>, 0, <<>>)
     ELSE IF completion.raised
     THEN out("", None, <<Error("Failed to connect to Perplexity API")>>, 1, <<transcript_text>>)
     ELSE LET extracted_data == completion.choices[1].content
              r == json_loads(extracted_data)
          IN IF r.raised = "JSONDecodeError"
             THEN out("", None, <<Error("Failed to parse Perplexity response as JSON.")>>,
                      1, <<transcript_text>>)
             ELSE out(r.raised, r.val, <<>>, 1, <<transcript_text>>)

\* Variant: an empty result is reported as an error by the function.
extract_workout_perplexity_error_on_empty(transcript, key, completion) ==
  LET out(exc, val, msgs, clients, reqs) ==
        [raised |-> exc, val |-> val, msgs |-> msgs, clients |-> clients, requests |-> reqs]
      transcript_text ==
        Join(" ", [i \in 1..Len(transcript[2]) |-> transcript[2][i].text])
  IN IF ~Truthy(transcript)
     THEN out("", None, <<Warning("No transcript available for this video.")>>, 0, <<>>)
     ELSE IF ~Truthy(key)
     THEN out("", None, <<Error("Perplexity API key is missing.")>>, 0, <<>>)
     ELSE IF completion.raised
     THEN out("", None, <<Error("Failed to connect to Perplexity API")>>, 1, <<transcript_text>>)
     ELSE LET extracted_data == completion.choices[1].content
              r == json_loads(extracted_data)
          IN IF r.raised = "JSONDecodeError"
             THEN out("", None, <<Error("Failed to parse Perplexity response as JSON.")>>,
                      1, <<transcript_text>>)
             ELSE IF r.raised = "" /\ ~Truthy(r.val)
             THEN out("", None, <<Error("No exercises found in the response.")>>,
                      1, <<transcript_text>>)
             ELSE out(r.raised, r.val, <<>>, 1, <<transcript_text>>)

\* extract_workout_perplexity(transcript), for the configured key and what
\* the completion call does if it is made: the value returned or the
\* exception that escapes, the messages shown, the clients constructed and
\* the prompt bodies sent.
extract_workout_perplexity(transcript, key, completion) ==
  LET out(exc, val, msgs, clients, reqs) ==
        [raised |-> exc, val |-> val, msgs |-> msgs, clients |-> clients, requests |-> reqs]
      transcript_text ==
        Join(" ", [i \in 1..Len(transcript[2]) |-> transcript[2][i].text])
  IN IF ~Truthy(transcript)
     THEN out("", None, <<Warning("No transcript available for this video.")>>, 0, <<>>)
     ELSE IF ~Truthy(key)
     THEN out("", None, <<Error("Perplexity API key is missing.")>>, 0, <<>>)
     ELSE IF completion.raised
     THEN out("", None, <<Error("Failed to connect to Perplexity API")>>, 1, <<transcript_text>>)
     ELSE LET extracted_data == completion.choices[1].content
              r == json_loads(extracted_data)
          IN IF r.raised = "JSONDecodeError"
             THEN out("", None, <<Error("Failed to parse Perplexity response as JSON.")>>,
                      1, <<transcript_text>>)
             ELSE out(r.raised, r.val, <<>>, 1, <<transcript_text>>)

\* -------------------------------------------------------------- state ---
VARIABLES
  pc,                  \* where the script stands: "idle", a stage, "done"
  PERPLEXITY_API_KEY,  \* the key read from the environment at start
  youtube_url,         \* the text input
  video_id,            \* the handler's locals, None while unassigned
  transcript,
  workout_data,
  workout_df,
  csv,                 \* data of the "Download CSV" button
  json_str,            \* data of the "Download JSON" button
  transcript_list,     \* what the provider listed in this run
  fetched,             \* index of the track fetched in this run, 0: none
  reply,               \* what the completion call did in this run
  messages,            \* st.error / st.warning boxes shown, in order
  rendered,            \* the other elements the handler put on the page
  calls,               \* calls made to the collaborators in this run
  raised,              \* the exception that ended the script, "" if none
  stages               \* the stages started in this run, in order

vars == <<pc, PERPLEXITY_API_KEY, youtube_url, video_id, transcript, workout_data,
          workout_df, csv, json_str, transcript_list, fetched, reply, messages,
          rendered, calls, raised, stages>>

NoFrame == [raised |-> "", columns |-> <<>>, rows |-> <<>>]
NoListing == [raised |-> FALSE, tracks |-> <<>>]
NoReply == [raised |-> FALSE, choices |-> <<>>]
NoCalls == [resolver |-> 0, provider |-> 0, client |-> 0, completion |-> 0]

\* A fresh run of the script: nothing assigned, nothing on the page.
Fresh ==
  /\ video_id = None /\ transcript = None /\ workout_data = None
  /\ workout_df = NoFrame /\ csv = <<>> /\ json_str = <<>>
  /\ transcript_list = NoListing /\ fetched = 0 /\ reply = NoReply
  /\ rendered = <<>> /\ calls = NoCalls /\ raised = "" /\ stages = <<>>

Init ==
  /\ pc = "idle"
  /\ PERPLEXITY_API_KEY \in ApiKeys
  /\ youtube_url = ""
  /\ messages = <<>>
  /\ Fresh

\* Variant: the handler does not test the URL before resolving it.
Click_no_url_check(url) ==
  /\ pc \in {"idle", "done"}
  /\ youtube_url' = url
  /\ video_id' = None /\ transcript' = None /\ workout_data' = None
  /\ workout_df' = NoFrame /\ csv' = <<>> /\ json_str' = <<>>
  /\ transcript_list' = NoListing /\ fetched' = 0 /\ reply' = NoReply
  /\ rendered' = <<>> /\ calls' = NoCalls /\ raised' = "" /\ stages' = <<>>
  /\ pc' = "resolve" /\ messages' = <<>>
  /\ UNCHANGED PERPLEXITY_API_KEY

\* The user edits the URL and clicks "Extract Workout Plan": the script
\* reruns from the top with a cleared page.  With an empty URL the handler
\* only warns.
Click(url) ==
  /\ pc \in {"idle", "done"}
  /\ youtube_url' = url
  /\ video_id' = None /\ transcript' = None /\ workout_data' = None
  /\ workout_df' = NoFrame /\ csv' = <<>> /\ json_str' = <<>>
  /\ transcript_list' = NoListing /\ fetched' = 0 /\ reply' = NoReply
  /\ rendered' = <<>> /\ calls' = NoCalls /\ raised' = "" /\ stages' = <<>>
  /\ IF url # ""
     THEN pc' = "resolve" /\ messages' = <<>>
     ELSE pc' = "done" /\ messages' = <<Warning("Please enter a YouTube URL to process.")>>
  /\ UNCHANGED PERPLEXITY_API_KEY

\* Stage 1: extract_video_id, then the video embed.
Resolve ==
  /\ pc = "resolve"
  /\ LET r == extract_video_id(youtube_url) IN
     /\ video_id' = r.val
     /\ messages' = messages \o r.msgs
     /\ IF Truthy(r.val)
        THEN /\ rendered' = rendered \o <<"subheader:Video", "markdown:embed">>
             /\ pc' = "transcript"
        ELSE /\ rendered' = rendered
             /\ pc' = "done"
  /\ calls' = [calls EXCEPT !.resolver = @ + 1]
  /\ stages' = Append(stages, "resolve")
  /\ UNCHANGED <<PERPLEXITY_API_KEY, youtube_url, transcript, workout_data, workout_df,
                 csv, json_str, transcript_list, fetched, reply, raised>>

\* Stage 2: get_transcript, and the handler's warning when it got none.
Fetch(listing, fetch_ok) ==
  /\ pc = "transcript"
  /\ LET r == get_transcript(listing, fetch_ok) IN
     /\ transcript' = r.val
     /\ fetched' = r.track
     /\ IF Truthy(r.val)
        THEN /\ messages' = messages \o r.msgs
             /\ pc' = "extract"
        ELSE /\ messages' = messages \o r.msgs
                              \o <<Warning("No transcript available for this video.")>>
             /\ pc' = "done"
  /\ transcript_list' = listing
  /\ calls' = [calls EXCEPT !.provider = @ + 1]
  /\ stages' = Append(stages, "transcript")
  /\ UNCHANGED <<PERPLEXITY_API_KEY, youtube_url, video_id, workout_data, workout_df,
                 csv, json_str, reply, rendered, raised>>

\* Stage 3: extract_workout_perplexity, and the handler's warning when it
\* got no plan.  An exception the function lets escape ends the script.
Extract(completion) ==
  /\ pc = "extract"
  /\ LET r == extract_workout_perplexity(transcript, PERPLEXITY_API_KEY, completion) IN
     /\ reply' = IF r.requests # <<>> THEN completion ELSE NoReply
     /\ calls' = [calls EXCEPT !.client = @ + r.clients,
                               !.completion = @ + Len(r.requests)]
     /\ raised' = r.raised
     /\ IF r.raised # ""
        THEN /\ messages' = messages \o r.msgs
             /\ pc' = "done"
             /\ UNCHANGED workout_data
        ELSE /\ workout_data' = r.val
             /\ IF Truthy(r.val)
                THEN /\ messages' = messages \o r.msgs
                     /\ pc' = "present"
                ELSE /\ messages' = messages \o r.msgs
                          \o <<Warning("Could not extract workout plan from this video.")>>
                     /\ pc' = "done"
  /\ stages' = Append(stages, "extract")
  /\ UNCHANGED <<PERPLEXITY_API_KEY, youtube_url, video_id, transcript, workout_df,
                 csv, json_str, transcript_list, fetched, rendered>>

\* Stage 4: the table and the two download buttons.  The ValueError of the
\* DataFrame constructor ends the script after the subheader.
Present ==
  /\ pc = "present"
  /\ LET df == DataFrame(workout_data) IN
     IF df.raised # ""
     THEN /\ raised' = df.raised
          /\ rendered' = Append(rendered, "subheader:Extracted Workout Plan")
          /\ UNCHANGED <<workout_df, csv, json_str>>
     ELSE /\ workout_df' = df
          /\ csv' = workout_csv(df)
          /\ json_str' = Dumps(workout_data)
          /\ rendered' = rendered \o <<"subheader:Extracted Workout Plan", "dataframe",
                                       "download:workout_plan.csv",
                                       "download:workout_plan.json">>
          /\ UNCHANGED raised
  /\ pc' = "done"
  /\ stages' = Append(stages, "present")
  /\ UNCHANGED <<PERPLEXITY_API_KEY, youtube_url, video_id, transcript, workout_data,
                 transcript_list, fetched, reply, messages, calls>>

Next ==
  \/ \E url \in Urls : Click(url)
  \/ Resolve
  \/ \E listing \in Listings, fetch_ok \in BOOLEAN : Fetch(listing, fetch_ok)
  \/ \E completion \in Completions : Extract(completion)
  \/ Present

Spec == Init /\ [][Next]_vars

\* ------------------------------------------------------------- claims ---
StageOrder == <<"resolve", "transcript", "extract", "present">>
Ran(stage) == \E i \in 1..Len(stages) : stages[i] = stage
Shown(w) == \E i \in 1..Len(rendered) : rendered[i] = w
Errors == {i \in 1..Len(messages) : messages[i].kind = "error"}
Warnings == {i \in 1..Len(messages) : messages[i].kind = "warning"}
CsvOffered == Shown("download:workout_plan.csv")
JsonOffered == Shown("download:workout_plan.json")

\* The provider listed a track whose language code is "en".
HasEnglish ==
  /\ Ran("transcript") /\ ~transcript_list.raised
  /\ \E i \in 1..Len(transcript_list.tracks) :
        transcript_list.tracks[i].language_code = "en"

\* The provider listed no track: it raised, or it enumerated nothing.
NoTracks ==
  /\ Ran("transcript")
  /\ transcript_list.raised \/ transcript_list.tracks = <<>>

\* The completion call was made and answered with this content.
Answered(content) ==
  /\ Ran("extract") /\ calls.completion = 1
  /\ ~reply.raised /\ reply.choices = <<[content |-> content]>>

\* An exercise record, and a list of them.
IsExerciseRecord(x) ==
  /\ x[1] = "obj" /\ Len(x[2]) = 3
  /\ {x[2][k][1] : k \in 1..3} = {K_exercise, K_sets, K_reps}
  /\ Get(x[2], K_exercise)[1] = "str"
  /\ Get(x[2], K_sets)[1] = "num" /\ Get(x[2], K_reps)[1] = "num"
IsWorkoutPlan(x) ==
  x[1] = "arr" /\ \A i \in 1..Len(x[2]) : IsExerciseRecord(x[2][i])

\* C1: the stages of a run start in the order resolve, transcript, extract,
\* present, each only after the earlier ones succeeded, and a run in which a
\* stage failed ends with at least one error or warning on the page.
C1_StagesShortCircuit ==
  /\ stages = SubSeq(StageOrder, 1, Len(stages))
  /\ Ran("transcript") => Truthy(video_id)
  /\ Ran("extract") => Truthy(transcript)
  /\ Ran("present") => Truthy(workout_data)
  /\ ( /\ pc = "done" /\ stages # <<>>
       /\ ~Truthy(video_id) \/ ~Truthy(transcript) \/ ~Truthy(workout_data) )
     => messages # <<>>

\* C2: when the provider lists a track with language code "en", the
\* transcript get_transcript returns is that of a track with code "en".
C2_EnglishPreferred ==
  (HasEnglish /\ fetched # 0)
    => transcript_list.tracks[fetched].language_code = "en"

\* C3: when the provider lists no track, get_transcript returns None, no
\* exception ends the script, and the run makes no completion request.
C3_NoTracksNoRequest ==
  NoTracks => /\ transcript = None /\ raised = ""
              /\ ~Ran("extract") /\ calls.completion = 0 /\ pc = "done"

C3_Witness ==
  /\ NoTracks /\ ~transcript_list.raised /\ pc = "done"
  /\ Errors # {} /\ calls.provider = 1

\* C6: what extract_workout_perplexity hands to the handler is a workout
\* plan or None, and no exception of the extraction ends the script.
C6_PlanOrNone ==
  Ran("extract") =>
    /\ raised # "TypeError"
    /\ workout_data = None \/ IsWorkoutPlan(workout_data)

\* The completion call was answered with a text that is not JSON.
BadAnswer == \E c \in BadTexts : Answered(c)

\* The completion call was answered with the JSON text of a falsy value:
\* null, false, 0, "", [] or {}.
FalsyTexts ==
  { TextOf(<<None>>), TextOf(<<Bool(FALSE)>>), TextOf(<<Num(0)>>), TextOf(<<Str(<<>>)>>),
    TextOf(<<Punct("["), Punct("]")>>), TextOf(<<Punct("{"), Punct("}")>>) }
FalsyAnswer == \E c \in FalsyTexts : Answered(c)

ParseError == Error("Failed to parse Perplexity response as JSON.")
NoPlanWarning == Warning("Could not extract workout plan from this video.")

\* C4 as stated: a run whose completion text is not JSON shows exactly one
\* message in all, and offers no download.
C4_ExactlyOneMessage ==
  (BadAnswer /\ pc = "done") =>
    /\ Len(messages) = 1
    /\ ~CsvOffered /\ ~JsonOffered

\* C4 amended: a run whose completion text is not JSON shows exactly one
\* error, the parse failure, followed by exactly one warning, the handler's
\* "could not extract"; two messages in all, and no table and no download.
C4_OneErrorOneWarning ==
  (BadAnswer /\ pc = "done") =>
    /\ messages = <<ParseError, NoPlanWarning>>
    /\ workout_data = None /\ raised = ""
    /\ ~Shown("dataframe") /\ ~CsvOffered /\ ~JsonOffered

C4_Witness ==
  /\ pc = "done" /\ Answered(TextOf(<<Punct("fence")>> \o Dumps(AnArray) \o <<Punct("fence")>>))
  /\ Cardinality(Errors) = 1 /\ Cardinality(Warnings) = 1

\* C5: when extraction is attempted and no API key is configured, the key
\* error is shown, the function returns None, and neither a client is
\* constructed nor a completion request sent in that run.
C5_MissingKeyNoCall ==
  (Ran("extract") /\ ~Truthy(PERPLEXITY_API_KEY)) =>
    /\ Truthy(transcript)
    /\ \E i \in Errors : messages[i] = Error("Perplexity API key is missing.")
    /\ workout_data = None /\ raised = ""
    /\ calls.client = 0 /\ calls.completion = 0 /\ reply = NoReply

C5_Witness ==
  /\ Ran("extract") /\ PERPLEXITY_API_KEY = None /\ pc = "done"
  /\ Len(messages) = 2 /\ calls.provider = 1 /\ calls.completion = 0

\* The run exported a list of exercise records.
PlanExported == pc = "done" /\ CsvOffered /\ JsonOffered /\ IsWorkoutPlan(workout_data)

\* The CSV line of a record with its fields in the order of the labels.
CsvRow(rec, labels) ==
  LET field(x) == IF x[1] = "num" THEN ToString(x[2]) ELSE CsvField(x[2])
  IN Join(",", [k \in 1..Len(labels) |-> field(Get(rec[2], labels[k]))])

\* The exported JSON text decodes to the list the endpoint answered with.
JsonIsThePlan == json_loads(TextOf(json_str)) = [raised |-> "", val |-> workout_data]

\* C7 as stated: the exported CSV is the header exercise,sets,reps and one
\* row per record, in order, with the record's exercise, sets and reps in
\* that column order and no index column; the exported JSON is the array.
C7_FixedColumnOrder ==
  PlanExported =>
    /\ Len(csv) = Len(workout_data[2]) + 1
    /\ csv[1] = "exercise,sets,reps"
    /\ \A i \in 1..Len(workout_data[2]) :
         csv[i + 1] = CsvRow(workout_data[2][i], <<K_exercise, K_sets, K_reps>>)
    /\ JsonIsThePlan

\* C7 amended: the columns come in the order of the keys of the first
\* record of the array; each row holds, under each label, that field of its
\* record.
C7_FirstRecordColumnOrder ==
  PlanExported =>
    LET first == workout_data[2][1][2]
        labels == [k \in 1..Len(first) |-> first[k][1]]
    IN /\ Len(csv) = Len(workout_data[2]) + 1
       /\ csv[1] = Join(",", [k \in 1..Len(labels) |-> Text(labels[k])])
       /\ \A i \in 1..Len(workout_data[2]) :
            csv[i + 1] = CsvRow(workout_data[2][i], labels)
       /\ JsonIsThePlan

C7_Witness ==
  /\ PlanExported /\ Len(workout_data[2]) = 2
  /\ workout_data[2][1][2][1][1] = K_reps
  /\ workout_data[2][2][2][1][1] = K_exercise
  /\ workout_data[2][1] # workout_data[2][2]

\* C8: a click with an empty URL shows exactly one warning and runs no
\* stage: no collaborator is called and nothing is rendered.
C8_EmptyUrlOnlyWarns ==
  (youtube_url = "" /\ pc = "done") =>
    /\ messages = <<Warning("Please enter a YouTube URL to process.")>>
    /\ stages = <<>> /\ calls = NoCalls /\ rendered = <<>>
    /\ video_id = None /\ transcript = None /\ workout_data = None

C8_Witness ==
  youtube_url = "" /\ pc = "done" /\ Cardinality(Warnings) = 1 /\ Errors = {}

\* C9: a run whose completion text is the JSON of a falsy value ends with
\* the handler's warning, shows no error, and offers no table or download.
C9_FalsyIsWarning ==
  FalsyAnswer =>
    /\ pc = "done" /\ raised = ""
    /\ Errors = {} /\ messages = <<NoPlanWarning>>
    /\ ~Ran("present")
    /\ ~Shown("dataframe") /\ ~CsvOffered /\ ~JsonOffered

C9_Witness ==
  /\ Answered(TextOf(<<Punct("["), Punct("]")>>)) /\ pc = "done"
  /\ workout_data = List(<<>>) /\ Warnings = {1}

\* C10: in a finished run the two downloads are offered together or not at
\* all, and only after a non-empty URL, a resolved id, the video embed, a
\* non-empty transcript, exactly one completion request and a table made
\* from a non-empty plan; the embed is on the page whenever an id was
\* resolved.
C10_DownloadsTogether ==
  /\ pc = "done" => (CsvOffered <=> JsonOffered)
  /\ (pc = "done" /\ CsvOffered) =>
       /\ youtube_url # "" /\ Truthy(video_id) /\ Shown("markdown:embed")
       /\ Truthy(transcript) /\ calls.completion = 1
       /\ Truthy(workout_data) /\ Shown("dataframe") /\ raised = ""
       /\ Len(workout_df.rows) = Len(workout_data[2]) /\ Len(workout_data[2]) > 0
  /\ (Ran("resolve") /\ Truthy(video_id)) => Shown("markdown:embed")

C10_Witness ==
  /\ pc = "done" /\ CsvOffered /\ JsonOffered /\ Shown("markdown:embed")
  /\ Len(workout_df.rows) = 2 /\ calls.completion = 1
====
